---------------------------- MODULE Spec2Model ----------------------------
(***************************************************************************)
(* Model of the inventory ledger server (controllers/inventory.js).        *)
(*                                                                         *)
(* The remote spreadsheet is the state: the "Inventory" sheet and the three *)
(* column bands of the "Form Responses" sheet (A-J issuance, K-S receipt,  *)
(* T-AA additions without item code).  Every sheet cell is a string, as    *)
(* spreadsheets.values.get returns it; a sheet is kept the way the API     *)
(* returns it: trailing empty cells of a row and trailing empty rows are   *)
(* dropped, an empty row in the middle is <<>>.                            *)
(*                                                                         *)
(* A handler is an async function: it runs alone between two awaits, and   *)
(* each awaited remote call is one step of the model, taken when the call  *)
(* takes effect on the sheet.                                              *)
(***************************************************************************)
EXTENDS Integers, Sequences, FiniteSets, TLC

VARIABLES
    inventory,      \* rows of sheet "Inventory", row 1 first
    formAJ,         \* rows of "Form Responses", columns A..J, row 1 first
    formKS,         \* rows of "Form Responses", columns K..S, row 1 first
    formTAA,        \* rows of "Form Responses", columns T..AA, row 1 first
    h,              \* per request slot: the handler's position and locals
    started,        \* number of requests received so far
    colIndex,       \* column specification: the index given to getColumnLetter
    colLetter,      \* column specification: the label it returned ("" before)
    bandRows,       \* finder specification: the rows a finder was given
    blankRowAtoJ,   \* finder specification: result of findFirstBlankRowAtoJ (0 before)
    blankRowTtoAA,  \* finder specification: result of findFirstBlankRowTtoAA (0 before)
    sheetsClient,   \* app.js: the module variable sheetsClient
    initPc          \* app.js: position of initGoogleSheets

sheetVars  == <<inventory, formAJ, formKS, formTAA>>
ledgerVars == <<inventory, formAJ, formKS, formTAA, h, started>>
columnVars == <<colIndex, colLetter>>
finderVars == <<bandRows, blankRowAtoJ, blankRowTtoAA>>
appVars    == <<sheetsClient, initPc>>
vars == <<inventory, formAJ, formKS, formTAA, h, started,
          colIndex, colLetter, bandRows, blankRowAtoJ, blankRowTtoAA,
          sheetsClient, initPc>>

-----------------------------------------------------------------------------
(* Bounds of the model.                                                    *)

\* Requests received in one behaviour.
MaxRequests == 2
\* Largest quantity a request asks for.
MaxRequestQty == 2
\* Largest number of rows handed to a blank-row finder in the finder specification.
MaxFetchedRows == 3

-----------------------------------------------------------------------------
(* JavaScript values.                                                      *)

Min(a, b) == IF a < b THEN a ELSE b
Max(a, b) == IF a > b THEN a ELSE b

\* The capital letters, by char code 65..90.
Alphabet == <<"A", "B", "C", "D", "E", "F", "G", "H", "I", "J", "K", "L", "M",
              "N", "O", "P", "Q", "R", "S", "T", "U", "V", "W", "X", "Y", "Z">>

\* String.fromCharCode, on the codes of the capital letters.
fromCharCode(code) == Alphabet[code - 64]

Digits == <<"0", "1", "2", "3", "4", "5", "6", "7", "8", "9">>

\* The decimal text of an integer: how a number written to a cell reads back.
RECURSIVE NumToStr(_)
NumToStr(n) ==
    IF n < 0 THEN "-" \o NumToStr(0 - n)
    ELSE IF n < 10 THEN Digits[n + 1]
    ELSE NumToStr(n \div 10) \o Digits[(n % 10) + 1]

\* Strings made of white space only; trim() turns them into "".
WhiteSpace == {" ", "  "}
trim(s) == IF s \in WhiteSpace THEN "" ELSE s

-----------------------------------------------------------------------------
(* getColumnLetter: column index to spreadsheet letters.                   *)

RECURSIVE getColumnLetterLoop(_, _)
getColumnLetterLoop(idx, letter) ==
    IF idx >= 0
    THEN getColumnLetterLoop((idx \div 26) - 1,
                             fromCharCode((idx % 26) + 65) \o letter)
    ELSE letter

\* The loop without the "- 1" of bijective numeration: 26 gives "BA".
RECURSIVE getColumnLetterNoCarry(_)
getColumnLetterNoCarry(idx) ==
    IF idx < 26 THEN fromCharCode(idx + 65)
    ELSE getColumnLetterNoCarry(idx \div 26) \o fromCharCode((idx % 26) + 65)

getColumnLetter(idx) == getColumnLetterLoop(idx, "")

-----------------------------------------------------------------------------
(* The blank-row finders, on the rows their fetch returned.                *)

\* Array.slice(0, n).
slice0(row, n) == SubSeq(row, 1, Min(n, Len(row)))

\* Array(n).fill('').
fillEmpty(n) == [k \in 1..n |-> ""]

\* cell => !cell || cell.toString().trim() === ''
cellIsBlank(cell) == cell = "" \/ trim(cell) = ""

isBlankAtoJ(row) ==
    \A k \in 1..Len(slice0(row, 10)) : cellIsBlank(slice0(row, 10)[k])

\* Returns the loop index instead of the 1-based row.
RECURSIVE findFirstBlankRowAtoJZeroBased(_, _)
findFirstBlankRowAtoJZeroBased(rows, i) ==
    IF i < Len(rows)
    THEN IF isBlankAtoJ(rows[i + 1]) THEN i
         ELSE findFirstBlankRowAtoJZeroBased(rows, i + 1)
    ELSE Len(rows) + 1

\* Appends onto the last fetched row instead of after it.
RECURSIVE findFirstBlankRowAtoJNoAppend(_, _)
findFirstBlankRowAtoJNoAppend(rows, i) ==
    IF i < Len(rows)
    THEN IF isBlankAtoJ(rows[i + 1]) THEN i + 1
         ELSE findFirstBlankRowAtoJNoAppend(rows, i + 1)
    ELSE Len(rows)

RECURSIVE findFirstBlankRowAtoJLoop(_, _)
findFirstBlankRowAtoJLoop(rows, i) ==
    IF i < Len(rows)
    THEN IF isBlankAtoJ(rows[i + 1]) THEN i + 1
         ELSE findFirstBlankRowAtoJLoop(rows, i + 1)
    ELSE Len(rows) + 1

findFirstBlankRowAtoJ(rows) == findFirstBlankRowAtoJLoop(rows, 0)

cellsTtoAA(row) ==
    IF Len(row) >= 8 THEN slice0(row, 8) ELSE row \o fillEmpty(8 - Len(row))

isBlankTtoAA(row) ==
    \A k \in 1..Len(cellsTtoAA(row)) : cellIsBlank(cellsTtoAA(row)[k])

\* The row numbers taken as if the fetch began at row 1.
RECURSIVE findFirstBlankRowTtoAAFromRow1(_, _)
findFirstBlankRowTtoAAFromRow1(rows, i) ==
    IF i < Len(rows)
    THEN IF isBlankTtoAA(rows[i + 1]) THEN i + 1
         ELSE findFirstBlankRowTtoAAFromRow1(rows, i + 1)
    ELSE Len(rows) + 1

RECURSIVE findFirstBlankRowTtoAALoop(_, _)
findFirstBlankRowTtoAALoop(rows, i) ==
    IF i < Len(rows)
    THEN IF isBlankTtoAA(rows[i + 1]) THEN i + 2
         ELSE findFirstBlankRowTtoAALoop(rows, i + 1)
    ELSE Len(rows) + 2

findFirstBlankRowTtoAA(rows) == findFirstBlankRowTtoAALoop(rows, 0)

-----------------------------------------------------------------------------
(* The spreadsheet service, as the handlers use it.                        *)

\* A row as values.get returns it: without its trailing empty cells.
RECURSIVE TrimRow(_)
TrimRow(row) ==
    IF Len(row) > 0 /\ row[Len(row)] = ""
    THEN TrimRow(SubSeq(row, 1, Len(row) - 1))
    ELSE row

\* A sheet as values.get returns it: without its trailing empty rows.
RECURSIVE TrimSheet(_)
TrimSheet(sheet) ==
    IF Len(sheet) > 0 /\ sheet[Len(sheet)] = <<>>
    THEN TrimSheet(SubSeq(sheet, 1, Len(sheet) - 1))
    ELSE sheet

PadSheet(sheet, n) == sheet \o [k \in 1..(n - Len(sheet)) |-> <<>>]
PadRow(row, n) == row \o [k \in 1..(n - Len(row)) |-> ""]

\* spreadsheets.values.get of a band from physical row firstRow on
\* ("Inventory!A:J", "Form Responses!A:J", "Form Responses!K3:S", ...).
ValuesGet(sheet, firstRow) == SubSeq(sheet, firstRow, Len(sheet))

\* spreadsheets.values.update of one whole band row ("Form Responses!A7:J7").
ValuesUpdateRow(sheet, rowNum, values) ==
    TrimSheet([PadSheet(sheet, rowNum) EXCEPT ![rowNum] = TrimRow(values)])

\* The column labels in sheet order, as A1 notation reads them: A..Z, AA..ZZ.
A1Label(c) ==
    IF c < 26 THEN Alphabet[c + 1]
    ELSE Alphabet[((c - 26) \div 26) + 1] \o Alphabet[((c - 26) % 26) + 1]

\* Largest index of a column with a one- or two-letter label.
MaxColIndex == 26 + 26 * 26 - 1

\* The 0-based column an A1 column label names.
A1Column(label) == CHOOSE c \in 0..MaxColIndex : A1Label(c) = label

\* spreadsheets.values.update of one cell ("Inventory!E3").
ValuesUpdateCell(sheet, label, rowNum, value) ==
    LET c    == A1Column(label) + 1
        wide == PadSheet(sheet, rowNum)
    IN  TrimSheet([wide EXCEPT ![rowNum] =
                       TrimRow([PadRow(wide[rowNum], c) EXCEPT ![c] = value])])

-----------------------------------------------------------------------------
(* Numbers of the request and of the Qty cells.                            *)

\* The numbers that can appear: two requests' worth above the largest initial Qty.
MaxNumber == 9 + (MaxRequests + 1) * (MaxRequestQty + 1)
Numbers == (0 - MaxNumber)..MaxNumber

\* The text of each number.
NumberText == [n \in Numbers |-> NumToStr(n)]

\* isNaN(parseFloat(s)): s is not the text of a number.
parseFloatIsNaN(s) == \A n \in Numbers : NumberText[n] # s

\* parseFloat(s), for s the text of a number.
parseFloat(s) == CHOOSE n \in Numbers : NumberText[n] = s

\* parseFloat(s) || 0
parseFloatOrZero(s) == IF parseFloatIsNaN(s) THEN 0 ELSE parseFloat(s)

-----------------------------------------------------------------------------
(* Column resolution and row lookup of issue and receive.                  *)

\* Array.indexOf: 0-based position of the first occurrence, -1 when absent.
indexOf(arr, x) ==
    IF \E k \in 1..Len(arr) : arr[k] = x
    THEN (CHOOSE k \in 1..Len(arr) :
              arr[k] = x /\ \A j \in 1..(k - 1) : arr[j] # x) - 1
    ELSE -1

\* row[col]; a cell past the end of the row is undefined, which no test of
\* the handlers tells from '': it equals no required field, parses to NaN
\* and is replaced by '' in row[col] || ''.
cellAt(row, col) == IF col + 1 <= Len(row) THEN row[col + 1] ELSE ""

RequiredHeaders ==
    <<"Location", "Item Code", "Description", "Qty", "Returnable Item", "Image Link">>

headersMissing(headers) ==
    \E k \in 1..Len(RequiredHeaders) : indexOf(headers, RequiredHeaders[k]) = -1

\* The lookup loop without its break: the last matching row wins.
RECURSIVE locateLast(_, _, _, _)
locateLast(dataRows, headers, body, i) ==
    IF i < Len(dataRows)
    THEN IF /\ locateLast(dataRows, headers, body, i + 1) = -1
            /\ cellAt(dataRows[i + 1], indexOf(headers, "Item Code")) = body.itemCode
            /\ cellAt(dataRows[i + 1], indexOf(headers, "Location")) = body.location
         THEN i
         ELSE locateLast(dataRows, headers, body, i + 1)
    ELSE -1

\* The lookup loop: the first i with dataRows[i] matching, -1 when none does.
RECURSIVE locateLoop(_, _, _, _)
locateLoop(dataRows, headers, body, i) ==
    IF i < Len(dataRows)
    THEN IF /\ cellAt(dataRows[i + 1], indexOf(headers, "Item Code")) = body.itemCode
            /\ cellAt(dataRows[i + 1], indexOf(headers, "Location")) = body.location
         THEN i
         ELSE locateLoop(dataRows, headers, body, i + 1)
    ELSE -1

\* const timestamp = `${year}-${month}-${day}, ${hours}:${minutes}:${seconds} ${ampm}`
Timestamp == "2026-01-05, 9:07:03 AM"

-----------------------------------------------------------------------------
(* Handlers: position and locals of the request in a slot.                 *)

Slots == {1, 2}

IdleHandler ==
    [op |-> "none", pc |-> "idle", body |-> <<>>,
     targetRowIndex |-> -1, colQty |-> -1, currentQty |-> 0, requestQty |-> 0,
     newQty |-> 0, formValues |-> <<>>, blankRow |-> 0,
     imageLink |-> "", results |-> <<>>,
     status |-> 0, error |-> "", writes |-> 0]

\* return res.status(status).json({ error }) or .json({ message, data })
respond(hr, status, error) == [hr EXCEPT !.pc = "done", !.status = status, !.error = error]

\* The request enters the application.
receiveRequest(r, op, body) ==
    /\ h[r].pc \in {"idle", "done"}
    /\ started < MaxRequests
    /\ started' = started + 1

-----------------------------------------------------------------------------
(* app.js: the connection to the spreadsheet service.                      *)

\* let sheetsClient; and the client google.sheets returns.
Undefined == "undefined"
Client == "client"

\* The middleware lets every request through.
notInitializedIgnored(client) == FALSE

\* if (!sheetsClient)
notInitialized(client) == client = Undefined

\* Lines 41-48: the middleware in front of the routes.  It answers 500 when
\* sheetsClient is not set; otherwise the route handler runs (next()).
middleware(hr, handled) ==
    IF notInitialized(sheetsClient)
    THEN respond(hr, 500, "Google Sheets not initialized")
    ELSE handled

\* Lines 24-39: initGoogleSheets, called once; its await of auth.getClient()
\* either gives the client or throws into the catch, which only logs.
InitGoogleSheets ==
    /\ initPc = "pending"
    /\ initPc' = "done"
    /\ \E ok \in BOOLEAN : sheetsClient' = IF ok THEN Client ELSE sheetsClient
    /\ UNCHANGED <<ledgerVars, columnVars, finderVars>>

\* The state once initGoogleSheets has connected.
Connected == sheetsClient = Client /\ initPc = "done"

-----------------------------------------------------------------------------
(* issueInventory                                                          *)

issueFieldsMissing(body) ==
    \/ body.itemCode = "" \/ body.issuanceQty = "" \/ body.issuedBy = ""
    \/ body.activity = "" \/ body.location = ""

\* The stock check left out.
issueInsufficientUnchecked(currentQty, requestQty) == FALSE

\* Only an empty stock is refused.
issueInsufficientWhenEmpty(currentQty, requestQty) == currentQty <= 0

\* if (currentQty < requestQty) return 400
issueInsufficient(currentQty, requestQty) == currentQty < requestQty

\* The stock grows on issue.
issueNewQtyAdded(currentQty, requestQty) == currentQty + requestQty

\* const newQty = currentQty - requestQty
issueNewQty(currentQty, requestQty) == currentQty - requestQty

\* The record carries the quantity left instead of the quantity issued.
issueFormValuesWithNewQty(body, requestQty, row, headers) ==
    <<Timestamp, body.itemCode,
      NumToStr(parseFloatOrZero(cellAt(row, indexOf(headers, "Qty"))) - requestQty),
      body.location,
      cellAt(row, indexOf(headers, "Description")),
      cellAt(row, indexOf(headers, "Returnable Item")),
      body.issuedBy, body.activity, body.notes,
      cellAt(row, indexOf(headers, "Image Link"))>>

\* Lines 253-264.
issueFormValues(body, requestQty, row, headers) ==
    <<Timestamp, body.itemCode, NumToStr(requestQty), body.location,
      cellAt(row, indexOf(headers, "Description")),
      cellAt(row, indexOf(headers, "Returnable Item")),
      body.issuedBy, body.activity, body.notes,
      cellAt(row, indexOf(headers, "Image Link"))>>

\* app.js lines 41-48, then lines 159-171: destructure the body, validate the
\* required fields.
IssueStart(r, body) ==
    /\ receiveRequest(r, "issue", body)
    /\ h' = [h EXCEPT ![r] =
                middleware([IdleHandler EXCEPT !.op = "issue", !.body = body],
                    IF issueFieldsMissing(body)
                    THEN respond([IdleHandler EXCEPT !.op = "issue", !.body = body],
                                 400, "Missing required fields")
                    ELSE [IdleHandler EXCEPT !.op = "issue", !.body = body,
                                             !.pc = "getInventory"])]
    /\ UNCHANGED <<sheetVars, columnVars, finderVars, appVars>>

\* Lines 179-264, on the rows the fetch of Inventory!A:J returned.
issueAfterInventory(hr, rows) ==
    IF Len(rows) < 2
    THEN respond(hr, 404, "No inventory data found")
    ELSE
    LET headers  == rows[1]
        dataRows == SubSeq(rows, 2, Len(rows))
        i        == locateLoop(dataRows, headers, hr.body, 0)
        row      == dataRows[i + 1]
        currentQty == parseFloatOrZero(cellAt(row, indexOf(headers, "Qty")))
        requestQty == parseFloat(hr.body.issuanceQty)
    IN  IF headersMissing(headers)
        THEN respond(hr, 500, "Inventory sheet headers missing required columns")
        ELSE IF i = -1
        THEN respond(hr, 404, "Item not found in inventory for the specified location")
        ELSE IF parseFloatIsNaN(hr.body.issuanceQty) \/ requestQty <= 0
        THEN respond(hr, 400, "Invalid issuance quantity")
        ELSE IF issueInsufficient(currentQty, requestQty)
        THEN respond(hr, 400, "Not enough quantity in inventory to fulfill issuance")
        ELSE [hr EXCEPT !.pc = "findBlankRow",
                        !.targetRowIndex = i + 2,
                        !.colQty = indexOf(headers, "Qty"),
                        !.currentQty = currentQty,
                        !.requestQty = requestQty,
                        !.newQty = issueNewQty(currentQty, requestQty),
                        !.formValues = issueFormValues(hr.body, requestQty, row, headers)]

\* The attempt is recorded in band A-J as soon as the inventory has been
\* read, before the request is validated against it.
IssueGetInventoryLoggingAttempt(r) ==
    /\ h[r].op = "issue" /\ h[r].pc = "getInventory"
    /\ \E ok \in BOOLEAN :
          IF ok
          THEN /\ formAJ' = ValuesUpdateRow(formAJ, findFirstBlankRowAtoJ(formAJ),
                                            <<Timestamp, h[r].body.itemCode>>)
               /\ h' = [h EXCEPT ![r] =
                          issueAfterInventory([h[r] EXCEPT !.writes = @ + 1],
                                              ValuesGet(inventory, 1))]
          ELSE /\ formAJ' = formAJ
               /\ h' = [h EXCEPT ![r] = respond(h[r], 500, "Failed to issue inventory")]
    /\ UNCHANGED <<inventory, formKS, formTAA, started, columnVars, finderVars, appVars>>

\* Lines 174-264: await values.get(Inventory!A:J), then everything up to the
\* next await.  A failed call throws into the catch of lines 307-310.
IssueGetInventory(r) ==
    /\ h[r].op = "issue" /\ h[r].pc = "getInventory"
    /\ \E ok \in BOOLEAN :
          h' = [h EXCEPT ![r] =
                   IF ok THEN issueAfterInventory(h[r], ValuesGet(inventory, 1))
                   ELSE respond(h[r], 500, "Failed to issue inventory")]
    /\ UNCHANGED <<sheetVars, started, columnVars, finderVars, appVars>>

\* Line 267: await findFirstBlankRowAtoJ, which fetches Form Responses!A:J.
IssueFindBlankRow(r) ==
    /\ h[r].op = "issue" /\ h[r].pc = "findBlankRow"
    /\ \E ok \in BOOLEAN :
          h' = [h EXCEPT ![r] =
                   IF ok
                   THEN [h[r] EXCEPT !.pc = "updateLog",
                            !.blankRow = findFirstBlankRowAtoJ(ValuesGet(formAJ, 1))]
                   ELSE respond(h[r], 500, "Failed to issue inventory")]
    /\ UNCHANGED <<sheetVars, started, columnVars, finderVars, appVars>>

\* The record goes to the first blank row of the band as it stands at the
\* write, scan and write as one remote step, instead of to the row found by
\* the earlier scan.
IssueUpdateLogAtFreshBlankRow(r) ==
    /\ h[r].op = "issue" /\ h[r].pc = "updateLog"
    /\ \E ok \in BOOLEAN :
          IF ok
          THEN /\ formAJ' = ValuesUpdateRow(formAJ,
                                findFirstBlankRowAtoJ(ValuesGet(formAJ, 1)),
                                h[r].formValues)
               /\ h' = [h EXCEPT ![r].pc = "updateQty", ![r].writes = @ + 1]
          ELSE /\ formAJ' = formAJ
               /\ h' = [h EXCEPT ![r] = respond(h[r], 500, "Failed to issue inventory")]
    /\ UNCHANGED <<inventory, formKS, formTAA, started, columnVars, finderVars, appVars>>

\* Lines 271-279: await values.update(Form Responses!A<blankRow>:J<blankRow>).
IssueUpdateLog(r) ==
    /\ h[r].op = "issue" /\ h[r].pc = "updateLog"
    /\ \E ok \in BOOLEAN :
          IF ok
          THEN /\ formAJ' = ValuesUpdateRow(formAJ, h[r].blankRow, h[r].formValues)
               /\ h' = [h EXCEPT ![r].pc = "updateQty", ![r].writes = @ + 1]
          ELSE /\ formAJ' = formAJ
               /\ h' = [h EXCEPT ![r] = respond(h[r], 500, "Failed to issue inventory")]
    /\ UNCHANGED <<inventory, formKS, formTAA, started, columnVars, finderVars, appVars>>

\* The quantity written is taken from the cell as it stands at the write,
\* as one remote step, instead of from the value read at the start.
IssueUpdateQtyOnStoredValue(r) ==
    /\ h[r].op = "issue" /\ h[r].pc = "updateQty"
    /\ \E ok \in BOOLEAN :
          IF ok
          THEN /\ inventory' =
                    ValuesUpdateCell(inventory, getColumnLetter(h[r].colQty),
                        h[r].targetRowIndex,
                        NumToStr(parseFloatOrZero(
                            cellAt(inventory[h[r].targetRowIndex], h[r].colQty))
                                 - h[r].requestQty))
               /\ h' = [h EXCEPT ![r] = respond([h[r] EXCEPT !.writes = @ + 1], 200, "")]
          ELSE /\ inventory' = inventory
               /\ h' = [h EXCEPT ![r] = respond(h[r], 500, "Failed to issue inventory")]
    /\ UNCHANGED <<formAJ, formKS, formTAA, started, columnVars, finderVars, appVars>>

\* Lines 282-306: await values.update(Inventory!<letter><targetRowIndex>), respond.
IssueUpdateQty(r) ==
    /\ h[r].op = "issue" /\ h[r].pc = "updateQty"
    /\ \E ok \in BOOLEAN :
          IF ok
          THEN /\ inventory' = ValuesUpdateCell(inventory, getColumnLetter(h[r].colQty),
                                                h[r].targetRowIndex, NumToStr(h[r].newQty))
               /\ h' = [h EXCEPT ![r] = respond([h[r] EXCEPT !.writes = @ + 1], 200, "")]
          ELSE /\ inventory' = inventory
               /\ h' = [h EXCEPT ![r] = respond(h[r], 500, "Failed to issue inventory")]
    /\ UNCHANGED <<formAJ, formKS, formTAA, started, columnVars, finderVars, appVars>>

-----------------------------------------------------------------------------
(* receiveInventory                                                        *)

receiveFieldsMissing(body) ==
    \/ body.itemCode = "" \/ body.receiptQty = "" \/ body.receivedBy = ""
    \/ body.location = ""

\* The stock shrinks on receipt, as in issueInventory.
receiveNewQtySubtracted(currentQty, requestQty) == currentQty - requestQty

\* const newQty = currentQty + requestQty
receiveNewQty(currentQty, requestQty) == currentQty + requestQty

receiveFormValues(body, requestQty, row, headers) ==
    <<Timestamp, body.itemCode, NumToStr(requestQty), body.location,
      cellAt(row, indexOf(headers, "Description")),
      cellAt(row, indexOf(headers, "Returnable Item")),
      body.receivedBy, body.notes,
      cellAt(row, indexOf(headers, "Image Link"))>>

\* row && row.some(cell => cell.trim() !== '')
receiptRowHasData(row) == \E k \in 1..Len(row) : trim(row[k]) # ""

\* Lines 432-438: the loop over the rows fetched from K3 on.
RECURSIVE receiveLastRowLoop(_, _, _)
receiveLastRowLoop(receiptRows, i, lastRow) ==
    IF i < Len(receiptRows)
    THEN receiveLastRowLoop(receiptRows, i + 1,
             IF receiptRowHasData(receiptRows[i + 1]) THEN i + 3 ELSE lastRow)
    ELSE lastRow

\* The record goes onto the last row with data instead of below it.
receiveNextRowOnLast(receiptRows) == receiveLastRowLoop(receiptRows, 0, 2)

\* Lines 432-439: const nextRow = lastRow + 1, lastRow starting at the header row 2.
receiveNextRow(receiptRows) == receiveLastRowLoop(receiptRows, 0, 2) + 1

\* app.js lines 41-48, then lines 315-326.
ReceiveStart(r, body) ==
    /\ receiveRequest(r, "receive", body)
    /\ h' = [h EXCEPT ![r] =
                middleware([IdleHandler EXCEPT !.op = "receive", !.body = body],
                    IF receiveFieldsMissing(body)
                    THEN respond([IdleHandler EXCEPT !.op = "receive", !.body = body],
                                 400, "Missing required fields")
                    ELSE [IdleHandler EXCEPT !.op = "receive", !.body = body,
                                             !.pc = "getInventory"])]
    /\ UNCHANGED <<sheetVars, columnVars, finderVars, appVars>>

\* Lines 334-419, on the rows the fetch of Inventory!A:J returned.
receiveAfterInventory(hr, rows) ==
    IF Len(rows) < 2
    THEN respond(hr, 404, "No inventory data found")
    ELSE
    LET headers  == rows[1]
        dataRows == SubSeq(rows, 2, Len(rows))
        i        == locateLoop(dataRows, headers, hr.body, 0)
        row      == dataRows[i + 1]
        currentQty == parseFloatOrZero(cellAt(row, indexOf(headers, "Qty")))
        requestQty == parseFloat(hr.body.receiptQty)
    IN  IF headersMissing(headers)
        THEN respond(hr, 500, "Inventory sheet headers missing required columns")
        ELSE IF i = -1
        THEN respond(hr, 404, "Item not found in inventory for the specified location")
        ELSE IF parseFloatIsNaN(hr.body.receiptQty) \/ requestQty <= 0
        THEN respond(hr, 400, "Invalid receipt quantity")
        ELSE [hr EXCEPT !.pc = "getReceipts",
                        !.targetRowIndex = i + 1,
                        !.colQty = indexOf(headers, "Qty"),
                        !.currentQty = currentQty,
                        !.requestQty = requestQty,
                        !.newQty = receiveNewQty(currentQty, requestQty),
                        !.formValues = receiveFormValues(hr.body, requestQty, row, headers)]

\* Lines 329-419: await values.get(Inventory!A:J), then everything up to the
\* next await.  A failed call throws into the catch of lines 484-487.
ReceiveGetInventory(r) ==
    /\ h[r].op = "receive" /\ h[r].pc = "getInventory"
    /\ \E ok \in BOOLEAN :
          h' = [h EXCEPT ![r] =
                   IF ok THEN receiveAfterInventory(h[r], ValuesGet(inventory, 1))
                   ELSE respond(h[r], 500, "Failed to receive inventory")]
    /\ UNCHANGED <<sheetVars, started, columnVars, finderVars, appVars>>

\* Lines 422-445: await values.get(Form Responses!K3:S), compute nextRow.
ReceiveGetReceipts(r) ==
    /\ h[r].op = "receive" /\ h[r].pc = "getReceipts"
    /\ \E ok \in BOOLEAN :
          h' = [h EXCEPT ![r] =
                   IF ok
                   THEN [h[r] EXCEPT !.pc = "updateLog",
                            !.blankRow = receiveNextRow(ValuesGet(formKS, 3))]
                   ELSE respond(h[r], 500, "Failed to receive inventory")]
    /\ UNCHANGED <<sheetVars, started, columnVars, finderVars, appVars>>

\* Lines 448-456: await values.update(Form Responses!K<nextRow>:S<nextRow>).
ReceiveUpdateLog(r) ==
    /\ h[r].op = "receive" /\ h[r].pc = "updateLog"
    /\ \E ok \in BOOLEAN :
          IF ok
          THEN /\ formKS' = ValuesUpdateRow(formKS, h[r].blankRow, h[r].formValues)
               /\ h' = [h EXCEPT ![r].pc = "updateQty", ![r].writes = @ + 1]
          ELSE /\ formKS' = formKS
               /\ h' = [h EXCEPT ![r] = respond(h[r], 500, "Failed to receive inventory")]
    /\ UNCHANGED <<inventory, formAJ, formTAA, started, columnVars, finderVars, appVars>>

\* A failed quantity write is compensated: the catch clears the log row.
ReceiveUpdateQtyCompensating(r) ==
    /\ h[r].op = "receive" /\ h[r].pc = "updateQty"
    /\ \E ok \in BOOLEAN :
          IF ok
          THEN /\ inventory' = ValuesUpdateCell(inventory, getColumnLetter(h[r].colQty),
                                                h[r].targetRowIndex + 1, NumToStr(h[r].newQty))
               /\ formKS' = formKS
               /\ h' = [h EXCEPT ![r] = respond([h[r] EXCEPT !.writes = @ + 1], 200, "")]
          ELSE /\ inventory' = inventory
               /\ formKS' = ValuesUpdateRow(formKS, h[r].blankRow, <<>>)
               /\ h' = [h EXCEPT ![r] = respond(h[r], 500, "Failed to receive inventory")]
    /\ UNCHANGED <<formAJ, formTAA, started, columnVars, finderVars, appVars>>

\* Lines 459-483: await values.update(Inventory!<letter><targetRowIndex + 1>), respond.
ReceiveUpdateQty(r) ==
    /\ h[r].op = "receive" /\ h[r].pc = "updateQty"
    /\ \E ok \in BOOLEAN :
          IF ok
          THEN /\ inventory' = ValuesUpdateCell(inventory, getColumnLetter(h[r].colQty),
                                                h[r].targetRowIndex + 1, NumToStr(h[r].newQty))
               /\ h' = [h EXCEPT ![r] = respond([h[r] EXCEPT !.writes = @ + 1], 200, "")]
          ELSE /\ inventory' = inventory
               /\ h' = [h EXCEPT ![r] = respond(h[r], 500, "Failed to receive inventory")]
    /\ UNCHANGED <<formAJ, formKS, formTAA, started, columnVars, finderVars, appVars>>

-----------------------------------------------------------------------------
(* addInventoryWithImage                                                   *)

\* imageResponse.data.webViewLink of an uploaded image.
WebViewLink == "http://img/new"

\* new Date().toISOString().split('T')[0]
CurrentDate == "2026-01-05"

\* Texts of req.body.entry: an object with every key the handler reads, an
\* object without "Item Code", a text cut off inside the object, and no text.
EntryFullText ==
    "{\"Location\":\"W2\",\"Item Code\":\"X3\",\"Description\":\"Washer\",\"UOM\":\"pc\",\"Qty\":\"5\",\"Condition\":\"Good\",\"Returnable Item\":\"No\",\"Category\":\"HW\"}"
EntryNoItemCodeText ==
    "{\"Location\":\"W2\",\"Description\":\"Washer\",\"UOM\":\"pc\",\"Qty\":\"5\",\"Condition\":\"Good\",\"Returnable Item\":\"No\",\"Category\":\"HW\"}"
EntryCutOffText == "{\"Location\":\"W2\",\"Item Code\":"
EntryAbsentText == ""

EntryKeys ==
    <<"Location", "Item Code", "Description", "UOM", "Qty", "Condition",
      "Returnable Item", "Category">>

\* JSON.parse on these texts: the object as a function from its keys, or a
\* SyntaxError thrown.
JSONparse(text) ==
    IF text = EntryFullText
    THEN [threw |-> FALSE,
          value |-> [k \in {"Location", "Item Code", "Description", "UOM", "Qty",
                            "Condition", "Returnable Item", "Category"} |->
                       CASE k = "Location" -> "W2" [] k = "Item Code" -> "X3"
                         [] k = "Description" -> "Washer" [] k = "UOM" -> "pc"
                         [] k = "Qty" -> "5" [] k = "Condition" -> "Good"
                         [] k = "Returnable Item" -> "No" [] k = "Category" -> "HW"]]
    ELSE IF text = EntryNoItemCodeText
    THEN [threw |-> FALSE,
          value |-> [k \in {"Location", "Description", "UOM", "Qty",
                            "Condition", "Returnable Item", "Category"} |->
                       CASE k = "Location" -> "W2"
                         [] k = "Description" -> "Washer" [] k = "UOM" -> "pc"
                         [] k = "Qty" -> "5" [] k = "Condition" -> "Good"
                         [] k = "Returnable Item" -> "No" [] k = "Category" -> "HW"]]
    ELSE [threw |-> TRUE, value |-> <<>>]

\* entry[key]: undefined for a key the object lacks, which values.append
\* writes as an empty cell.
entryField(entry, key) == IF key \in DOMAIN entry THEN entry[key] ELSE ""

\* Lines 59-70.
addValues(entry, imageLink) ==
    [k \in 1..Len(EntryKeys) |-> entryField(entry, EntryKeys[k])]
        \o <<CurrentDate, imageLink>>

\* spreadsheets.values.append to Inventory!A:J with INSERT_ROWS: the row goes
\* below the last row of the table.
ValuesAppend(sheet, values) == ValuesUpdateRow(sheet, Len(sheet) + 1, values)

\* app.js lines 41-48, then lines 25-44.  body.file: multer stored an image
\* (req.file); body.folder: DRIVE_FOLDER_ID is configured.
AddStart(r, body) ==
    /\ receiveRequest(r, "add", body)
    /\ h' = [h EXCEPT ![r] =
                middleware([IdleHandler EXCEPT !.op = "add", !.body = body],
                    IF ~body.file
                    THEN respond([IdleHandler EXCEPT !.op = "add", !.body = body],
                                 400, "No image file uploaded")
                    ELSE IF ~body.folder
                    THEN respond([IdleHandler EXCEPT !.op = "add", !.body = body],
                                 500, "Drive folder ID is not configured")
                    ELSE [IdleHandler EXCEPT !.op = "add", !.body = body,
                                             !.pc = "uploadImage"])]
    /\ UNCHANGED <<sheetVars, columnVars, finderVars, appVars>>

\* Lines 52-70, once the upload has returned: JSON.parse throws into the
\* catch of lines 88-91.
addAfterUpload(hr) ==
    LET parsed == JSONparse(hr.body.entry) IN
    IF parsed.threw
    THEN respond([hr EXCEPT !.imageLink = WebViewLink],
                 500, "Failed to add inventory entry and upload image")
    ELSE [hr EXCEPT !.pc = "append", !.imageLink = WebViewLink,
                    !.formValues = addValues(parsed.value, WebViewLink)]

\* Lines 46-70: await drive.files.create, then everything up to the next await.
AddUploadImage(r) ==
    /\ h[r].op = "add" /\ h[r].pc = "uploadImage"
    /\ \E ok \in BOOLEAN :
          h' = [h EXCEPT ![r] =
                   IF ok THEN addAfterUpload(h[r])
                   ELSE respond(h[r], 500, "Failed to add inventory entry and upload image")]
    /\ UNCHANGED <<sheetVars, started, columnVars, finderVars, appVars>>

\* Lines 72-91: await values.append(Inventory!A:J), respond.
AddAppend(r) ==
    /\ h[r].op = "add" /\ h[r].pc = "append"
    /\ \E ok \in BOOLEAN :
          IF ok
          THEN /\ inventory' = ValuesAppend(inventory, h[r].formValues)
               /\ h' = [h EXCEPT ![r] = respond([h[r] EXCEPT !.writes = @ + 1], 201, "")]
          ELSE /\ inventory' = inventory
               /\ h' = [h EXCEPT ![r] =
                          respond(h[r], 500, "Failed to add inventory entry and upload image")]
    /\ UNCHANGED <<formAJ, formKS, formTAA, started, columnVars, finderVars, appVars>>

-----------------------------------------------------------------------------
(* searchInventory                                                         *)

LowerAlphabet == <<"a", "b", "c", "d", "e", "f", "g", "h", "i", "j", "k", "l", "m",
                   "n", "o", "p", "q", "r", "s", "t", "u", "v", "w", "x", "y", "z">>

\* String.prototype.toLowerCase.
RECURSIVE toLowerCase(_)
toLowerCase(s) ==
    IF s = "" THEN ""
    ELSE (IF \E k \in 1..26 : Alphabet[k] = SubSeq(s, 1, 1)
          THEN LowerAlphabet[CHOOSE k \in 1..26 : Alphabet[k] = SubSeq(s, 1, 1)]
          ELSE SubSeq(s, 1, 1))
         \o toLowerCase(SubSeq(s, 2, Len(s)))

\* String.prototype.includes.
includes(s, part) ==
    \E i \in 1..(Len(s) - Len(part) + 1) : SubSeq(s, i, i + Len(part) - 1) = part

\* row.some(field => field && field.toString().toLowerCase().includes(keyword.toLowerCase()))
searchRowMatches(row, keyword) ==
    \E k \in 1..Len(row) :
        row[k] # "" /\ includes(toLowerCase(row[k]), toLowerCase(keyword))

\* dataRows.filter(...)
RECURSIVE searchFilter(_, _)
searchFilter(dataRows, keyword) ==
    IF dataRows = <<>> THEN <<>>
    ELSE (IF searchRowMatches(Head(dataRows), keyword) THEN <<Head(dataRows)>> ELSE <<>>)
         \o searchFilter(Tail(dataRows), keyword)

\* headers.forEach((header, i) => { obj[header] = entry[i] || '' }): the
\* object as a function from the header names, a later column of the same
\* name overwriting an earlier one.
searchFormat(headers, entry) ==
    [name \in {headers[i] : i \in 1..Len(headers)} |->
        cellAt(entry, (CHOOSE i \in 1..Len(headers) :
                          headers[i] = name
                          /\ \A j \in (i + 1)..Len(headers) : headers[j] # name) - 1)]

\* A table with a header row only is taken for no data, as in issueInventory.
searchNoDataBelowHeader(rows) == Len(rows) < 2

\* !rows || rows.length === 0
searchNoData(rows) == Len(rows) = 0

\* Lines 106-128, on the rows the fetch of Inventory!A:J returned.
searchAfterInventory(hr, rows) ==
    IF searchNoData(rows)
    THEN respond(hr, 404, "No inventory data found")
    ELSE LET filtered == searchFilter(Tail(rows), hr.body.keyword)
         IN  respond([hr EXCEPT !.results =
                         [k \in 1..Len(filtered) |-> searchFormat(rows[1], filtered[k])]],
                     200, "")

\* app.js lines 41-48, then lines 96-99.
SearchStart(r, query) ==
    /\ receiveRequest(r, "search", query)
    /\ h' = [h EXCEPT ![r] =
                middleware([IdleHandler EXCEPT !.op = "search", !.body = query],
                    IF query.keyword = ""
                    THEN respond([IdleHandler EXCEPT !.op = "search", !.body = query],
                                 400, "Please provide a keyword to search")
                    ELSE [IdleHandler EXCEPT !.op = "search", !.body = query,
                                             !.pc = "searchGet"])]
    /\ UNCHANGED <<sheetVars, columnVars, finderVars, appVars>>

\* Lines 101-132: await values.get(Inventory!A:J), respond.
SearchGet(r) ==
    /\ h[r].op = "search" /\ h[r].pc = "searchGet"
    /\ \E ok \in BOOLEAN :
          h' = [h EXCEPT ![r] =
                   IF ok THEN searchAfterInventory(h[r], ValuesGet(inventory, 1))
                   ELSE respond(h[r], 500, "Failed to search inventory")]
    /\ UNCHANGED <<sheetVars, started, columnVars, finderVars, appVars>>

-----------------------------------------------------------------------------
(* addNewItemWithoutCode                                                   *)

addNewFieldsMissing(body) ==
    \/ body.receiptQty = "" \/ body.location = "" \/ body.description = ""
    \/ body.returnableItem = "" \/ body.receivedBy = ""

\* Lines 592-601.
addNewFormValues(body, imageLink) ==
    <<Timestamp, body.receiptQty, body.location, body.description,
      body.returnableItem, body.receivedBy, body.notes, imageLink>>

\* app.js lines 41-48, then lines 529-561.  body.file: multer stored an image
\* (req.file); body.folder: DRIVE_FOLDER_ID is configured.
AddNewStart(r, body) ==
    /\ receiveRequest(r, "addNew", body)
    /\ h' = [h EXCEPT ![r] =
                middleware([IdleHandler EXCEPT !.op = "addNew", !.body = body],
                    IF addNewFieldsMissing(body)
                    THEN respond([IdleHandler EXCEPT !.op = "addNew", !.body = body],
                                 400, "Missing required fields")
                    ELSE IF body.file /\ ~body.folder
                    THEN respond([IdleHandler EXCEPT !.op = "addNew", !.body = body],
                                 500, "Drive folder ID is not configured")
                    ELSE IF body.file
                    THEN [IdleHandler EXCEPT !.op = "addNew", !.body = body,
                                             !.pc = "uploadImageNew"]
                    ELSE [IdleHandler EXCEPT !.op = "addNew", !.body = body,
                                             !.pc = "findBlankRowTtoAA",
                                             !.formValues = addNewFormValues(body, "")])]
    /\ UNCHANGED <<sheetVars, columnVars, finderVars, appVars>>

\* Lines 563-601: await drive.files.create, then everything up to the next await.
AddNewUploadImage(r) ==
    /\ h[r].op = "addNew" /\ h[r].pc = "uploadImageNew"
    /\ \E ok \in BOOLEAN :
          h' = [h EXCEPT ![r] =
                   IF ok
                   THEN [h[r] EXCEPT !.pc = "findBlankRowTtoAA",
                                     !.imageLink = WebViewLink,
                                     !.formValues = addNewFormValues(h[r].body, WebViewLink)]
                   ELSE respond(h[r], 500, "Failed to add new inventory item")]
    /\ UNCHANGED <<sheetVars, started, columnVars, finderVars, appVars>>

\* Line 604: await findFirstBlankRowTtoAA, which fetches Form Responses!T2:AA
\* and rethrows a failure (lines 520-523) into the catch of lines 632-635.
AddNewFindBlankRow(r) ==
    /\ h[r].op = "addNew" /\ h[r].pc = "findBlankRowTtoAA"
    /\ \E ok \in BOOLEAN :
          h' = [h EXCEPT ![r] =
                   IF ok
                   THEN [h[r] EXCEPT !.pc = "updateLogTtoAA",
                            !.blankRow = findFirstBlankRowTtoAA(ValuesGet(formTAA, 2))]
                   ELSE respond(h[r], 500, "Failed to add new inventory item")]
    /\ UNCHANGED <<sheetVars, started, columnVars, finderVars, appVars>>

\* The new item is also entered into the Inventory table, as addInventoryWithImage does.
AddNewUpdateLogAndInventory(r) ==
    /\ h[r].op = "addNew" /\ h[r].pc = "updateLogTtoAA"
    /\ \E ok \in BOOLEAN :
          IF ok
          THEN /\ formTAA' = ValuesUpdateRow(formTAA, h[r].blankRow, h[r].formValues)
               /\ inventory' = ValuesAppend(inventory,
                                   <<h[r].body.location, "", h[r].body.description, "",
                                     h[r].body.receiptQty>>)
               /\ h' = [h EXCEPT ![r] = respond([h[r] EXCEPT !.writes = @ + 1], 201, "")]
          ELSE /\ formTAA' = formTAA /\ inventory' = inventory
               /\ h' = [h EXCEPT ![r] = respond(h[r], 500, "Failed to add new inventory item")]
    /\ UNCHANGED <<formAJ, formKS, started, columnVars, finderVars, appVars>>

\* Lines 607-635: await values.update(Form Responses!T<blankRow>:AA<blankRow>), respond.
AddNewUpdateLog(r) ==
    /\ h[r].op = "addNew" /\ h[r].pc = "updateLogTtoAA"
    /\ \E ok \in BOOLEAN :
          IF ok
          THEN /\ formTAA' = ValuesUpdateRow(formTAA, h[r].blankRow, h[r].formValues)
               /\ h' = [h EXCEPT ![r] = respond([h[r] EXCEPT !.writes = @ + 1], 201, "")]
          ELSE /\ formTAA' = formTAA
               /\ h' = [h EXCEPT ![r] = respond(h[r], 500, "Failed to add new inventory item")]
    /\ UNCHANGED <<inventory, formAJ, formKS, started, columnVars, finderVars, appVars>>

-----------------------------------------------------------------------------
(* Sheets the server can find, and the requests it can get.                *)

InventoryHeaders ==
    <<"Location", "Item Code", "Description", "UOM", "Qty", "Condition",
      "Returnable Item", "Category", "Date Counted", "Image Link">>

\* Two rows with the key (X1, W1), one with an image link and one without,
\* and a row of (X2, W1) that ends before its Qty cell.
InvStandard ==
    <<InventoryHeaders,
      <<"W1", "X1", "Bolt", "pc", "2", "Good", "No", "HW", "2026-01-01", "http://img/1">>,
      <<"W1", "X1", "Bolt", "pc", "3", "Good", "No", "HW", "2026-01-01">>,
      <<"W1", "X2", "Nut">> >>

\* The required columns in another order: Qty is column A.
InvPermuted ==
    << <<"Qty", "Item Code", "Location", "Description", "Returnable Item", "Image Link">>,
       <<"2", "X1", "W1", "Bolt", "No">> >>

\* No "Image Link" header.
InvNoImageLink ==
    << <<"Location", "Item Code", "Description", "UOM", "Qty", "Condition",
         "Returnable Item", "Category", "Date Counted", "Image">>,
       <<"W1", "X1", "Bolt", "pc", "2", "Good", "No">> >>

InvHeaderOnly == <<InventoryHeaders>>
InvEmpty == <<>>

InitInventories == {InvStandard, InvPermuted, InvNoImageLink, InvHeaderOnly, InvEmpty}

HeadersAJ ==
    <<"Timestamp", "Item Code", "Issuance Qty", "Location", "Description",
      "Returnable Item", "Issued by", "Activity", "Notes/Comments", "Image Link">>
HeadersKS ==
    <<"Timestamp", "Item Code", "Receipt Qty", "Location", "Description",
      "Returnable Item", "Received by", "Notes/Comments", "Image Link">>
HeadersTAA ==
    <<"Timestamp", "Receipt Qty", "Location", "Description", "Returnable Item",
      "Received by", "Notes/Comments", "Image Link">>

OldIssue   == <<"2025-12-31, 4:15:00 PM", "X1", "1", "W1", "Bolt", "No", "bob", "repair">>
OldReceipt == <<"2025-12-30, 8:40:10 AM", "X1", "1", "W1", "Bolt", "No", "bob">>

\* "Form Responses" as found: empty; headers only; records around an empty
\* row; records with a white-space row and an empty row before the last one.
FormEmpty == [AJ |-> <<>>, KS |-> <<>>, TAA |-> <<>>]
FormHeadersOnly ==
    [AJ |-> <<HeadersAJ>>, KS |-> << <<>>, HeadersKS >>, TAA |-> <<HeadersTAA>>]
FormGap ==
    [AJ |-> <<HeadersAJ, OldIssue, <<>>, OldIssue>>,
     KS |-> << <<>>, HeadersKS, OldReceipt, <<>>, OldReceipt >>,
     TAA |-> <<HeadersTAA>>]
FormWhiteSpace ==
    [AJ |-> <<HeadersAJ, OldIssue, <<" ">>, <<>>, OldIssue>>,
     KS |-> << <<>>, HeadersKS, OldReceipt, <<"", " ">> >>,
     TAA |-> <<HeadersTAA>>]

InitForms == {FormEmpty, FormHeadersOnly, FormGap, FormWhiteSpace}

\* The text of the quantity field: absent, not a number, zero, negative, 1..MaxRequestQty.
PositiveQtyInputs == {NumToStr(n) : n \in 1..MaxRequestQty}
QtyInputs == {"", "abc", "0", "-1"} \cup PositiveQtyInputs

\* Request bodies with at most one required field absent.
IssueBodies ==
    { b \in [itemCode : {"", "X1", "X2", "X9"}, issuanceQty : QtyInputs,
             issuedBy : {"", "ann"}, activity : {"", "repair"}, notes : {""},
             location : {"", "W1"}] :
        Cardinality({f \in {"itemCode", "issuanceQty", "issuedBy", "activity", "location"} :
                        b[f] = ""}) <= 1 }

ReceiveBodies ==
    { b \in [itemCode : {"", "X1", "X2", "X9"}, receiptQty : QtyInputs,
             receivedBy : {"", "ann"}, notes : {""}, location : {"", "W1"}] :
        Cardinality({f \in {"itemCode", "receiptQty", "receivedBy", "location"} :
                        b[f] = ""}) <= 1 }

ColumnIdle == colIndex = 0 /\ colLetter = ""
FinderIdle == bandRows = <<>> /\ blankRowAtoJ = 0 /\ blankRowTtoAA = 0

-----------------------------------------------------------------------------
(* Spec: the server handling one request at a time.                        *)

Init ==
    /\ inventory \in InitInventories
    /\ \E f \in InitForms : formAJ = f.AJ /\ formKS = f.KS /\ formTAA = f.TAA
    /\ h = [r \in Slots |-> IdleHandler]
    /\ started = 0
    /\ ColumnIdle /\ FinderIdle /\ Connected

Next ==
    \E r \in {1} :
        \/ \E body \in IssueBodies : IssueStart(r, body)
        \/ IssueGetInventory(r)
        \/ IssueFindBlankRow(r)
        \/ IssueUpdateLog(r)
        \/ IssueUpdateQty(r)
        \/ \E body \in ReceiveBodies : ReceiveStart(r, body)
        \/ ReceiveGetInventory(r)
        \/ ReceiveGetReceipts(r)
        \/ ReceiveUpdateLog(r)
        \/ ReceiveUpdateQty(r)

Spec == Init /\ [][Next]_vars

-----------------------------------------------------------------------------
(* SerialSpec: one request at a time, every remote write succeeding (a     *)
(* remote read may still fail).                                            *)

\* The step is a values.update that failed.
WriteFailed ==
    \E r \in Slots :
        /\ h[r].pc \in {"updateLog", "updateQty"}
        /\ h'[r] # h[r]
        /\ h'[r].writes = h[r].writes

SerialNext == Next /\ ~WriteFailed

SerialSpec == Init /\ [][SerialNext]_vars

-----------------------------------------------------------------------------
(* ConcSpec: two requests in their handlers at once, both well-formed and  *)
(* both on the key (X1, W1).                                               *)

ConcIssueBodies ==
    { b \in IssueBodies :
        /\ b.itemCode = "X1" /\ b.location = "W1" /\ b.issuedBy = "ann"
        /\ b.activity = "repair" /\ b.issuanceQty \in PositiveQtyInputs }

ConcReceiveBodies ==
    { b \in ReceiveBodies :
        /\ b.itemCode = "X1" /\ b.location = "W1" /\ b.receivedBy = "ann"
        /\ b.receiptQty \in PositiveQtyInputs }

ConcInit ==
    /\ inventory = InvStandard
    /\ \E f \in {FormHeadersOnly, FormGap} :
          formAJ = f.AJ /\ formKS = f.KS /\ formTAA = f.TAA
    /\ h = [r \in Slots |-> IdleHandler]
    /\ started = 0
    /\ ColumnIdle /\ FinderIdle /\ Connected

ConcNext ==
    \E r \in Slots :
        \/ \E body \in ConcIssueBodies : IssueStart(r, body)
        \/ IssueGetInventory(r)
        \/ IssueFindBlankRow(r)
        \/ IssueUpdateLog(r)
        \/ IssueUpdateQty(r)
        \/ \E body \in ConcReceiveBodies : ReceiveStart(r, body)
        \/ ReceiveGetInventory(r)
        \/ ReceiveGetReceipts(r)
        \/ ReceiveUpdateLog(r)
        \/ ReceiveUpdateQty(r)

ConcSpec == ConcInit /\ [][ConcNext]_vars

-----------------------------------------------------------------------------
(* FinderSpec: the blank-row finders applied to fetched rows.              *)

LedgerIdle ==
    /\ inventory = <<>> /\ formAJ = <<>> /\ formKS = <<>> /\ formTAA = <<>>
    /\ h = [r \in Slots |-> IdleHandler]
    /\ started = 0

\* Rows values.get can return for a band: empty, white space only, with text.
FetchedRowShapes ==
    { <<>>, <<" ">>, <<"", "  ">>, <<"x">>, <<"", "x">>,
      <<" ", "", "", "", "", "", "", " ">>,
      <<"", "", "", "", "", "", "", "z">> }

\* What a fetch can return: up to MaxFetchedRows rows, the last one not empty.
FetchedBands ==
    { b \in UNION { [1..n -> FetchedRowShapes] : n \in 0..MaxFetchedRows } :
        TrimSheet(b) = b }

FinderInit ==
    /\ LedgerIdle /\ ColumnIdle /\ Connected
    /\ bandRows \in FetchedBands
    /\ blankRowAtoJ = 0 /\ blankRowTtoAA = 0

\* Lines 142-154 on the fetched rows.
FinderAtoJ ==
    /\ blankRowAtoJ = 0
    /\ blankRowAtoJ' = findFirstBlankRowAtoJ(bandRows)
    /\ UNCHANGED <<ledgerVars, columnVars, appVars, bandRows, blankRowTtoAA>>

\* Lines 500-519 on the fetched rows.
FinderTtoAA ==
    /\ blankRowTtoAA = 0
    /\ blankRowTtoAA' = findFirstBlankRowTtoAA(bandRows)
    /\ UNCHANGED <<ledgerVars, columnVars, appVars, bandRows, blankRowAtoJ>>

FinderNext == FinderAtoJ \/ FinderTtoAA

FinderSpec == FinderInit /\ [][FinderNext]_vars

-----------------------------------------------------------------------------
(* ColumnSpec: getColumnLetter applied to a column index.                  *)

ColumnInit ==
    /\ LedgerIdle /\ FinderIdle /\ Connected
    /\ colIndex \in 0..MaxColIndex
    /\ colLetter = ""

ColumnConvert ==
    /\ colLetter = ""
    /\ colLetter' = getColumnLetter(colIndex)
    /\ UNCHANGED <<ledgerVars, finderVars, appVars, colIndex>>

ColumnNext == ColumnConvert

ColumnSpec == ColumnInit /\ [][ColumnNext]_vars

-----------------------------------------------------------------------------
(* AppSpec: the application from its start, initGoogleSheets pending, with *)
(* the requests of every route handled one at a time.                      *)

AppInventories == {InvStandard, InvHeaderOnly, InvEmpty}

\* A record of band T-AA, and "Form Responses" with records in the three
\* bands, those of T-AA around an empty row.
OldNewItem == <<"2025-12-29, 1:05:00 PM", "4", "W1", "Clamp", "No", "bob">>
FormNewItems ==
    [AJ |-> <<HeadersAJ, OldIssue>>,
     KS |-> << <<>>, HeadersKS, OldReceipt >>,
     TAA |-> <<HeadersTAA, OldNewItem, <<>>, OldNewItem>>]

AppForms == {FormEmpty, FormGap, FormWhiteSpace, FormNewItems}

AppIssueBodies ==
    { b \in IssueBodies :
        /\ b.itemCode = "X1" /\ b.location = "W1" /\ b.issuedBy = "ann"
        /\ b.issuanceQty \in PositiveQtyInputs }

AppReceiveBodies ==
    { b \in ReceiveBodies :
        /\ b.itemCode = "X1" /\ b.location = "W1"
        /\ b.receiptQty \in PositiveQtyInputs }

AddBodies ==
    [file : BOOLEAN, folder : BOOLEAN,
     entry : {EntryFullText, EntryNoItemCodeText, EntryCutOffText, EntryAbsentText}]

\* No keyword, a keyword in another case than the cells, one matching nothing.
SearchQueries == [keyword : {"", "w1", "BOLT", "zzz"}]

AddNewBodies ==
    [receiptQty : {"", "2"}, location : {"W1"}, description : {"", "Washer"},
     returnableItem : {"No"}, receivedBy : {"ann"}, notes : {""},
     file : BOOLEAN, folder : BOOLEAN]

AppInit ==
    /\ inventory \in AppInventories
    /\ \E f \in AppForms : formAJ = f.AJ /\ formKS = f.KS /\ formTAA = f.TAA
    /\ h = [r \in Slots |-> IdleHandler]
    /\ started = 0
    /\ ColumnIdle /\ FinderIdle
    /\ sheetsClient = Undefined /\ initPc = "pending"

AppNext ==
    \/ InitGoogleSheets
    \/ \E r \in {1} :
        \/ \E body \in AppIssueBodies : IssueStart(r, body)
        \/ IssueGetInventory(r)
        \/ IssueFindBlankRow(r)
        \/ IssueUpdateLog(r)
        \/ IssueUpdateQty(r)
        \/ \E body \in AppReceiveBodies : ReceiveStart(r, body)
        \/ ReceiveGetInventory(r)
        \/ ReceiveGetReceipts(r)
        \/ ReceiveUpdateLog(r)
        \/ ReceiveUpdateQty(r)
        \/ \E body \in AddBodies : AddStart(r, body)
        \/ AddUploadImage(r)
        \/ AddAppend(r)
        \/ \E query \in SearchQueries : SearchStart(r, query)
        \/ SearchGet(r)
        \/ \E body \in AddNewBodies : AddNewStart(r, body)
        \/ AddNewUploadImage(r)
        \/ AddNewFindBlankRow(r)
        \/ AddNewUpdateLog(r)

AppSpec == AppInit /\ [][AppNext]_vars

-----------------------------------------------------------------------------
(* What the claims speak of, read off the sheets and the request.          *)

\* 1-based position of a header in the header row.
HeaderPos(headerRow, name) == CHOOSE k \in 1..Len(headerRow) : headerRow[k] = name

HasHeaders(headerRow) ==
    \A k \in 1..Len(RequiredHeaders) :
        \E j \in 1..Len(headerRow) : headerRow[j] = RequiredHeaders[k]

\* The cell at row n, column k of a sheet; "" where the sheet holds nothing.
GridCell(sheet, n, k) ==
    IF n <= Len(sheet) /\ k <= Len(sheet[n]) THEN sheet[n][k] ELSE ""

\* Physical rows of the Inventory sheet with the key (itemCode, location).
MatchingRows(inv, itemCode, location) ==
    { n \in 2..Len(inv) :
        /\ GridCell(inv, n, HeaderPos(inv[1], "Item Code")) = itemCode
        /\ GridCell(inv, n, HeaderPos(inv[1], "Location")) = location }

\* Row n of the Inventory sheet carries the key.
RowHasKey(inv, n, itemCode, location) ==
    /\ GridCell(inv, n, HeaderPos(inv[1], "Item Code")) = itemCode
    /\ GridCell(inv, n, HeaderPos(inv[1], "Location")) = location

\* The located row: the first one with the key.
LocatedRow(inv, itemCode, location) ==
    CHOOSE n \in 2..Len(inv) :
        /\ RowHasKey(inv, n, itemCode, location)
        /\ \A m \in 2..(n - 1) : ~RowHasKey(inv, m, itemCode, location)

\* A sheet on which the key can be located.
Locatable(inv, itemCode, location) ==
    /\ Len(inv) >= 2
    /\ HasHeaders(inv[1])
    /\ MatchingRows(inv, itemCode, location) # {}

QtyText(inv, n) == GridCell(inv, n, HeaderPos(inv[1], "Qty"))

\* The texts of numbers, and the number each is the text of.
NumberTexts == {NumberText[n] : n \in Numbers}
TextNumber == [t \in NumberTexts |-> CHOOSE n \in Numbers : NumberText[n] = t]

IsNumberText(s) == s \in NumberTexts
NumberOf(s) == TextNumber[s]

\* currentQty of the located row: the number in its Qty cell, 0 when it holds none.
CurrentQty(inv, itemCode, location) ==
    LET t == QtyText(inv, LocatedRow(inv, itemCode, location))
    IN  IF IsNumberText(t) THEN NumberOf(t) ELSE 0

\* A positive numeric quantity.
IsPositiveQty(s) == IsNumberText(s) /\ NumberOf(s) > 0

\* Row n of a band; <<>> below its last row.
BandRow(band, n) == IF n <= Len(band) THEN band[n] ELSE <<>>

\* A blank row: every cell absent or white space only.
IsBlankRow(row) == \A k \in 1..Len(row) : row[k] \in ({""} \cup WhiteSpace)

\* The rows in which two versions of a band differ.
ChangedRows(old, new) ==
    { n \in 1..Max(Len(old), Len(new)) : BandRow(old, n) # BandRow(new, n) }

RemoteFailure == {"Failed to issue inventory", "Failed to receive inventory"}

\* The step is a successful remote write of the request in slot r.
Wrote(r) == h'[r].writes = h[r].writes + 1

-----------------------------------------------------------------------------
(* C1                                                                      *)

IssueEligible(body, inv) ==
    /\ ~issueFieldsMissing(body)
    /\ Locatable(inv, body.itemCode, body.location)
    /\ IsPositiveQty(body.issuanceQty)
    /\ NumberOf(body.issuanceQty) <= CurrentQty(inv, body.itemCode, body.location)

C1_LogStep(r) ==
    LET q == NumberOf(h[r].body.issuanceQty) IN
    /\ Cardinality(ChangedRows(formAJ, formAJ')) = 1
    /\ \A n \in ChangedRows(formAJ, formAJ') :
          /\ IsBlankRow(BandRow(formAJ, n))
          /\ Len(formAJ'[n]) >= 8
          /\ formAJ'[n][2] = h[r].body.itemCode
          /\ formAJ'[n][3] = NumToStr(q)
          /\ formAJ'[n][4] = h[r].body.location
          /\ formAJ'[n][7] = h[r].body.issuedBy
          /\ formAJ'[n][8] = h[r].body.activity
    /\ inventory' = inventory

C1_QtyStep(r) ==
    LET body == h[r].body
        q    == NumberOf(body.issuanceQty)
        n    == LocatedRow(inventory, body.itemCode, body.location)
    IN  /\ h'[r].pc = "done" /\ h'[r].status = 200
        /\ QtyText(inventory', n) =
              NumToStr(CurrentQty(inventory, body.itemCode, body.location) - q)
        /\ formAJ' = formAJ

C1_Step(r) ==
    /\ (h[r].pc = "getInventory" /\ IssueEligible(h[r].body, inventory)
          /\ h'[r].error \notin RemoteFailure) => h'[r].pc = "findBlankRow"
    /\ (h[r].pc = "findBlankRow" /\ h'[r].error \notin RemoteFailure)
          => h'[r].pc = "updateLog"
    /\ (h[r].pc = "updateLog" /\ Wrote(r)) => C1_LogStep(r)
    /\ (h[r].pc = "updateQty" /\ Wrote(r)) => C1_QtyStep(r)
    /\ (h[r].pc # "updateLog") => formAJ' = formAJ

\* C1: an issue request with all required fields, a matching row and a
\* positive numeric quantity q <= currentQty (q = currentQty included) is not
\* rejected; when its log write succeeds exactly one row of band A-J changes,
\* from blank to a record carrying q, and no other step of the request
\* changes the band; when its quantity write succeeds the Qty cell of the
\* located row holds exactly currentQty - q and the response is 200.
C1_IssueWithinStock ==
    [][\A r \in Slots : (h[r].op = "issue" /\ h'[r] # h[r]) => C1_Step(r)]_vars

\* An issue of the whole stock (q = currentQty = 2) answered 200: the Qty
\* cell of the located row reads 0 and the record is in the empty row 3.
C1_Witness ==
    /\ h[1].op = "issue" /\ h[1].pc = "done" /\ h[1].status = 200
    /\ h[1].body.issuanceQty = "2" /\ h[1].body.itemCode = "X1"
    /\ inventory = [InvStandard EXCEPT ![2][5] = "0"]
    /\ formAJ = <<HeadersAJ, OldIssue,
                  <<Timestamp, "X1", "2", "W1", "Bolt", "No", "ann", "repair", "",
                    "http://img/1">>,
                  OldIssue>>

-----------------------------------------------------------------------------
(* C2                                                                      *)

\* Every change of a sheet is a remote write counted by the request making it.
WritesCounted == (sheetVars' # sheetVars) => \E r \in Slots : Wrote(r)

IssueBeyondStock(body, inv) ==
    /\ ~issueFieldsMissing(body)
    /\ Locatable(inv, body.itemCode, body.location)
    /\ IsPositiveQty(body.issuanceQty)
    /\ NumberOf(body.issuanceQty) > CurrentQty(inv, body.itemCode, body.location)

\* C2: an issue request for a positive quantity greater than the current
\* quantity of the located row ends, once the inventory has been read, with
\* 400 "Not enough quantity", having made no write: the step leaves every
\* sheet as it was, and the request has written nothing before it.
C2_IssueBeyondStock ==
    [][/\ WritesCounted
       /\ \A r \in Slots :
            (/\ h[r].op = "issue" /\ h[r].pc = "getInventory"
             /\ IssueBeyondStock(h[r].body, inventory)
             /\ h'[r] # h[r] /\ h'[r].error \notin RemoteFailure)
            => /\ h'[r].pc = "done" /\ h'[r].status = 400
               /\ h'[r].error = "Not enough quantity in inventory to fulfill issuance"
               /\ h'[r].writes = 0
               /\ sheetVars' = sheetVars]_vars

\* After an issue of 1 from a stock of 2, an issue of 2 is rejected and the
\* Qty cell still reads 1.
C2_Witness ==
    /\ h[1].op = "issue" /\ h[1].pc = "done" /\ h[1].status = 400
    /\ h[1].error = "Not enough quantity in inventory to fulfill issuance"
    /\ h[1].body.issuanceQty = "2" /\ h[1].body.itemCode = "X1"
    /\ h[1].writes = 0
    /\ inventory = [InvStandard EXCEPT ![2][5] = "1"]

-----------------------------------------------------------------------------
(* C3                                                                      *)

ReceiveEligible(body, inv) ==
    /\ ~receiveFieldsMissing(body)
    /\ Locatable(inv, body.itemCode, body.location)
    /\ IsPositiveQty(body.receiptQty)

C3_LogStep(r) ==
    LET q == NumberOf(h[r].body.receiptQty) IN
    /\ Cardinality(ChangedRows(formKS, formKS')) = 1
    /\ \A n \in ChangedRows(formKS, formKS') :
          /\ n >= 3
          /\ Len(formKS'[n]) >= 7
          /\ formKS'[n][2] = h[r].body.itemCode
          /\ formKS'[n][3] = NumToStr(q)
          /\ formKS'[n][4] = h[r].body.location
          /\ formKS'[n][7] = h[r].body.receivedBy
    /\ inventory' = inventory

C3_QtyStep(r) ==
    LET body == h[r].body
        q    == NumberOf(body.receiptQty)
        n    == LocatedRow(inventory, body.itemCode, body.location)
    IN  /\ h'[r].pc = "done" /\ h'[r].status = 200
        /\ QtyText(inventory', n) =
              NumToStr(CurrentQty(inventory, body.itemCode, body.location) + q)
        /\ formKS' = formKS

C3_Step(r) ==
    /\ (h[r].pc = "getInventory" /\ ReceiveEligible(h[r].body, inventory)
          /\ h'[r].error \notin RemoteFailure) => h'[r].pc = "getReceipts"
    /\ (h[r].pc = "getReceipts" /\ h'[r].error \notin RemoteFailure)
          => h'[r].pc = "updateLog"
    /\ (h[r].pc = "updateLog" /\ Wrote(r)) => C3_LogStep(r)
    /\ (h[r].pc = "updateQty" /\ Wrote(r)) => C3_QtyStep(r)
    /\ (h[r].pc # "updateLog") => formKS' = formKS

\* C3: a receive request with all required fields, a matching row and a
\* positive numeric quantity q is not rejected, however large q is; when its
\* log write succeeds one record carrying q is written into one row of band
\* K-S below the header row; when its quantity write succeeds the Qty cell of
\* the located row holds exactly currentQty + q and the response is 200.
C3_ReceiveAdds ==
    [][\A r \in Slots : (h[r].op = "receive" /\ h'[r] # h[r]) => C3_Step(r)]_vars

\* A receipt of 2 onto a stock of 2, answered 200: the Qty cell reads 4 and the
\* record is in row 3 of K-S.
C3_Witness ==
    /\ h[1].op = "receive" /\ h[1].pc = "done" /\ h[1].status = 200
    /\ h[1].body.receiptQty = "2" /\ h[1].body.itemCode = "X1"
    /\ inventory = [InvStandard EXCEPT ![2][5] = "4"]
    /\ formKS = << <<>>, HeadersKS,
                   <<Timestamp, "X1", "2", "W1", "Bolt", "No", "ann", "",
                     "http://img/1">> >>

-----------------------------------------------------------------------------
(* C4                                                                      *)

\* The request in slot r is an issue on the key that was answered 200.
IssueAccepted(r, itemCode, location) ==
    /\ h[r].op = "issue" /\ h[r].pc = "done" /\ h[r].status = 200
    /\ h[r].body.itemCode = itemCode /\ h[r].body.location = location

\* C4: when the two requests in the handlers are issues on the same
\* (itemCode, location) row that read the same currentQty and were both
\* answered 200, the Qty cell holds currentQty minus the quantity of one of
\* them, never currentQty minus both: one issuance is lost.  (That such a
\* state is reached, the read-modify-write windows overlapping, is the witness.)
C4_LostUpdate ==
    \A a \in Slots : \A b \in Slots \ {a} :
        (/\ IssueAccepted(a, "X1", "W1") /\ IssueAccepted(b, "X1", "W1")
         /\ h[a].currentQty = h[b].currentQty)
        => LET c    == h[a].currentQty
               qa   == NumberOf(h[a].body.issuanceQty)
               qb   == NumberOf(h[b].body.issuanceQty)
               cell == QtyText(inventory, LocatedRow(inventory, "X1", "W1"))
           IN  /\ cell \in {NumToStr(c - qa), NumToStr(c - qb)}
               /\ cell # NumToStr(c - qa - qb)

\* Stock 2, two issues of 1 that both read 2 and were both answered 200: the
\* Qty cell reads 1, not 0.
C4_Witness ==
    /\ IssueAccepted(1, "X1", "W1") /\ IssueAccepted(2, "X1", "W1")
    /\ h[1].currentQty = 2 /\ h[2].currentQty = 2
    /\ h[1].body.issuanceQty = "1" /\ h[2].body.issuanceQty = "1"
    /\ h[1].writes = 2 /\ h[2].writes = 2
    /\ QtyText(inventory, 2) = "1"

-----------------------------------------------------------------------------
(* C5                                                                      *)

\* The log band of an operation, after the step, and whether the step changes it.
LogBandAfter(op) == IF op = "issue" THEN formAJ' ELSE formKS'
LogBandChanged(op) == IF op = "issue" THEN formAJ' # formAJ ELSE formKS' # formKS

\* The band row the request wrote carries its record.
RecordWritten(hr, band) ==
    /\ BandRow(band, hr.blankRow) = TrimRow(hr.formValues)
    /\ Len(BandRow(band, hr.blankRow)) >= 7
    /\ BandRow(band, hr.blankRow)[2] = hr.body.itemCode
    /\ BandRow(band, hr.blankRow)[3] = NumToStr(hr.requestQty)

C5_Step(r) ==
    \* The log write is the request's first write, the quantity write its second.
    /\ LogBandChanged(h[r].op) => (h[r].writes = 0 /\ h'[r].writes = 1)
    /\ (inventory' # inventory) => (h[r].writes = 1 /\ h'[r].writes = 2)
    \* The quantity write fails after the log write succeeded.
    /\ (h[r].pc = "updateQty" /\ ~Wrote(r))
          => /\ h[r].writes = 1
             /\ h'[r].pc = "done" /\ h'[r].status = 500
             /\ sheetVars' = sheetVars
             /\ RecordWritten(h[r], LogBandAfter(h[r].op))
    \* A request that has been answered does nothing more: its slot only
    \* takes the next request.
    /\ (h[r].pc = "done")
          => (sheetVars' = sheetVars /\ started' = started + 1 /\ h'[r].writes = 0)

\* C5: in issue and receive the log write precedes the quantity write; when
\* the log write has succeeded and the quantity write fails, the request ends
\* with 500, the step changes no sheet (the record stays in the log band, the
\* Qty cell keeps its value), and the answered request takes no further step.
C5_LogBeforeQtyNotAtomic ==
    [][\A r \in Slots :
          (h[r].op \in {"issue", "receive"} /\ h'[r] # h[r]) => C5_Step(r)]_vars

\* An issue of 1 whose log write succeeded and whose quantity write failed:
\* 500, the record in row 2 of A-J, the inventory as it was.
C5_Witness ==
    /\ h[1].op = "issue" /\ h[1].pc = "done" /\ h[1].status = 500
    /\ h[1].writes = 1 /\ h[1].body.issuanceQty = "1"
    /\ formAJ = <<HeadersAJ,
                  <<Timestamp, "X1", "1", "W1", "Bolt", "No", "ann", "repair", "",
                    "http://img/1">> >>
    /\ inventory = InvStandard

-----------------------------------------------------------------------------
(* C6                                                                      *)

SchemaError == "Inventory sheet headers missing required columns"

\* The response is an early exit: Rejected (400, 404) or Failed on the schema.
EarlyExit(hr) ==
    /\ hr.pc = "done"
    /\ \/ hr.status \in {400, 404}
       \/ hr.status = 500 /\ hr.error = SchemaError

C6_Step(r) ==
    \* Before its log write a request changes no sheet.
    /\ (h[r].pc \notin {"updateLog", "updateQty"}) => sheetVars' = sheetVars
    \* An early exit is taken from a position before the log write, by a
    \* request that has written nothing.
    /\ EarlyExit(h'[r])
          => /\ h[r].pc \in {"idle", "done", "getInventory"}
             /\ h'[r].writes = 0
             /\ sheetVars' = sheetVars

\* C6: in issue and receive every early exit comes before the log write: a
\* request answered 400 (missing fields, invalid quantity, not enough stock),
\* 404 (no inventory data, item not found) or 500 for missing headers has
\* written neither to Form Responses nor to Inventory; every change of a
\* sheet is a write counted for the request making it.
C6_EarlyExitsWriteNothing ==
    [][/\ WritesCounted
       /\ \A r \in Slots : (h'[r] # h[r]) => C6_Step(r)]_vars

\* A receive request answered 500 for the missing "Image Link" header, with
\* nothing written.
C6_Witness ==
    /\ h[1].op = "receive" /\ h[1].pc = "done" /\ h[1].status = 500
    /\ h[1].error = SchemaError /\ h[1].writes = 0
    /\ inventory = InvNoImageLink
    /\ formKS = FormGap.KS /\ formAJ = FormGap.AJ

-----------------------------------------------------------------------------
(* C7                                                                      *)

\* Rows of band K-S below the header row 2 that are blank.
BlankReceiptRows(band) == { n \in 3..Len(band) : IsBlankRow(band[n]) }

\* The row the blank-row finder would give on band K-S fetched from row 3:
\* the first blank row, or the row after the last fetched one.
FirstBlankReceiptRow(band) ==
    IF BlankReceiptRows(band) # {}
    THEN CHOOSE n \in BlankReceiptRows(band) : \A m \in BlankReceiptRows(band) : n <= m
    ELSE Max(Len(band), 2) + 1

\* Rows of band K-S below the header row that hold a non-white-space cell.
DataReceiptRows(band) == { n \in 3..Len(band) : ~IsBlankRow(band[n]) }

\* The row after the last one with data; row 3 when there is none.
RowAfterLastReceipt(band) ==
    IF DataReceiptRows(band) # {}
    THEN (CHOOSE n \in DataReceiptRows(band) : \A m \in DataReceiptRows(band) : m <= n) + 1
    ELSE 3

\* The step is the log write of a receive request in slot r.
ReceiveLogWrite(r) == h[r].op = "receive" /\ h[r].pc = "updateLog" /\ Wrote(r)

\* C7 as stated: receive writes its record at the first blank row of band K-S
\* below the header row 2, or at the row following the last fetched row when
\* no fetched row is blank; a blank row between two receipt rows is filled.
C7_Original ==
    [][\A r \in Slots :
          ReceiveLogWrite(r)
          => ChangedRows(formKS, formKS') = {FirstBlankReceiptRow(formKS)}]_vars

\* C7 amended: receive writes its record at the row following the last row of
\* K3:S that holds a non-white-space cell (row 3 when none does); that row is
\* blank, and no blank row above it is filled.
C7_ReceiveAfterLastData ==
    [][\A r \in Slots :
          ReceiveLogWrite(r)
          => /\ ChangedRows(formKS, formKS') = {RowAfterLastReceipt(formKS)}
             /\ IsBlankRow(BandRow(formKS, RowAfterLastReceipt(formKS)))
             /\ RowAfterLastReceipt(formKS) >= FirstBlankReceiptRow(formKS)
             /\ RecordWritten(h[r], formKS')]_vars

\* A receipt into a band with a blank row 4 between the records of rows 3 and
\* 5: the record is in row 6 and row 4 is still blank.
C7_Witness ==
    /\ h[1].op = "receive" /\ h[1].pc = "updateQty" /\ h[1].writes = 1
    /\ h[1].blankRow = 6
    /\ formKS = << <<>>, HeadersKS, OldReceipt, <<>>, OldReceipt,
                   <<Timestamp, "X1", "1", "W1", "Bolt", "No", "ann", "",
                     "http://img/1">> >>

-----------------------------------------------------------------------------
(* C8, C9                                                                  *)

\* Band widths and the physical row of the first fetched row.
WidthAtoJ == 10
WidthTtoAA == 8
FirstRowAtoJ == 1
FirstRowTtoAA == 2

\* Blank within the band: every cell of the first width positions is absent
\* or white space only.
IsBlankWithin(row, width) ==
    \A k \in 1..width : k > Len(row) \/ row[k] \in ({""} \cup WhiteSpace)

BlankFetched(rows, width) == { i \in 1..Len(rows) : IsBlankWithin(rows[i], width) }

FirstBlankFetched(rows, width) ==
    CHOOSE i \in BlankFetched(rows, width) : \A j \in BlankFetched(rows, width) : i <= j

\* C8: each finder returns the physical row number of the first fetched row
\* that is blank within the band width, whatever rows follow it.
C8_FirstBlankWins ==
    /\ (blankRowAtoJ # 0 /\ BlankFetched(bandRows, WidthAtoJ) # {})
          => blankRowAtoJ = FirstRowAtoJ + FirstBlankFetched(bandRows, WidthAtoJ) - 1
    /\ (blankRowTtoAA # 0 /\ BlankFetched(bandRows, WidthTtoAA) # {})
          => blankRowTtoAA = FirstRowTtoAA + FirstBlankFetched(bandRows, WidthTtoAA) - 1

\* A row with text, then an empty row, then a white-space row: both finders
\* give the second fetched row, physical row 2 of A-J and 3 of T-AA.
C8_Witness ==
    /\ bandRows = << <<"x">>, <<>>, <<"", "  ">> >>
    /\ blankRowAtoJ = 2 /\ blankRowTtoAA = 3

\* C9: when no fetched row is blank, zero fetched rows included, each finder
\* returns the physical row following the last fetched row: rows.length + 1
\* for A-J, rows.length + 2 for T-AA.
C9_AppendAfterLast ==
    /\ (blankRowAtoJ # 0 /\ BlankFetched(bandRows, WidthAtoJ) = {})
          => /\ blankRowAtoJ = Len(bandRows) + 1
             /\ blankRowAtoJ = FirstRowAtoJ + Len(bandRows)
    /\ (blankRowTtoAA # 0 /\ BlankFetched(bandRows, WidthTtoAA) = {})
          => /\ blankRowTtoAA = Len(bandRows) + 2
             /\ blankRowTtoAA = FirstRowTtoAA + Len(bandRows)

\* Two fetched rows with text: rows 3 of A-J and 4 of T-AA.
C9_Witness ==
    /\ bandRows = << <<"x">>, <<"", "x">> >>
    /\ blankRowAtoJ = 3 /\ blankRowTtoAA = 4

-----------------------------------------------------------------------------
(* C10                                                                     *)

\* The column labels in order: A, ..., Z, then AA, AB, ..., ZZ.
LabelSequence ==
    Alphabet \o [k \in 1..(26 * 26) |->
                    Alphabet[((k - 1) \div 26) + 1] \o Alphabet[((k - 1) % 26) + 1]]

\* C10: on the indices 0..701 getColumnLetter gives index i the (i+1)-th label
\* of A, ..., Z, AA, ..., ZZ, and gives no other index the same label.
C10_ColumnLetterBijection ==
    colLetter # ""
    => /\ Len(LabelSequence) = MaxColIndex + 1
       /\ colLetter = LabelSequence[colIndex + 1]
       /\ \A j \in 0..MaxColIndex : j # colIndex => getColumnLetter(j) # colLetter

\* Index 26, the first two-letter label.
C10_Witness == colIndex = 26 /\ colLetter = "AA"

-----------------------------------------------------------------------------
(* C11                                                                     *)

NotInitializedError == "Google Sheets not initialized"

\* The step takes a request into the application in slot r.
Enters(r) == started' = started + 1 /\ h'[r] # h[r]

\* The answer of the middleware: 500, given on entry, the route handler not
\* run and nothing written.
FailedFast(r) ==
    /\ h'[r].pc = "done" /\ h'[r].status = 500
    /\ h'[r].error = NotInitializedError
    /\ h'[r].writes = 0
    /\ sheetVars' = sheetVars

\* C11: initialization is one step, never taken again; the handle, once set,
\* is never changed or cleared; a request entering while the handle is
\* not set is answered 500 "not initialized" on entry, before its route
\* handler or any remote call, and changes no sheet; a request entering once
\* the handle is set never gets that answer; and that answer is only ever
\* given on entry.
C11_FailFastNoRetry ==
    [][/\ (initPc = "done") => (initPc' = "done" /\ sheetsClient' = sheetsClient)
       /\ (sheetsClient # Undefined) => (sheetsClient' = sheetsClient)
       /\ \A r \in Slots :
            /\ (Enters(r) /\ sheetsClient = Undefined) => FailedFast(r)
            /\ (Enters(r) /\ sheetsClient # Undefined)
                  => h'[r].error # NotInitializedError
            /\ (h'[r] # h[r] /\ h'[r].error = NotInitializedError) => Enters(r)
            /\ (h'[r] # h[r] /\ ~Enters(r)) => sheetsClient # Undefined]_vars

\* Initialization has failed and both requests made since were answered 500
\* "not initialized", the sheets as they were found.
C11_Witness ==
    /\ initPc = "done" /\ sheetsClient = Undefined
    /\ started = MaxRequests
    /\ h[1].pc = "done" /\ h[1].status = 500 /\ h[1].error = NotInitializedError
    /\ h[1].writes = 0
    /\ inventory = InvStandard /\ formAJ = FormGap.AJ /\ formKS = FormGap.KS

-----------------------------------------------------------------------------
(* C12                                                                     *)

\* The entry field is malformed JSON or lacks a key the handler reads.
EntryInvalid(text) ==
    \/ text \in {EntryCutOffText, EntryAbsentText}
    \/ text = EntryNoItemCodeText

\* C12 as stated: an addWithImage request whose entry is malformed JSON or
\* lacks required keys appends no row to the Inventory table and, once its
\* image has been taken, ends with 400.
C12_Original ==
    [][\A r \in Slots :
          (h[r].op = "add" /\ h'[r] # h[r] /\ h[r].pc \in {"uploadImage", "append"}
              /\ EntryInvalid(h[r].body.entry))
          => /\ inventory' = inventory
             /\ (h'[r].imageLink # "") => (h'[r].pc = "done" /\ h'[r].status = 400)]_vars

\* An entry without "Item Code" answered 201, its row appended with an empty
\* Item Code cell.
C12_Witness ==
    /\ h[1].op = "add" /\ h[1].pc = "done" /\ h[1].status = 201
    /\ h[1].body.entry = EntryNoItemCodeText
    /\ inventory = InvStandard \o
          << <<"W2", "", "Washer", "pc", "5", "Good", "No", "HW", CurrentDate, WebViewLink>> >>

-----------------------------------------------------------------------------
(* C13                                                                     *)

\* The data rows of the table with a cell containing the keyword, letter
\* case aside.
MatchingDataRows(inv, keyword) ==
    { n \in 2..Len(inv) :
        \E k \in 1..Len(inv[n]) :
            includes(toLowerCase(inv[n][k]), toLowerCase(keyword)) }

\* C13: a search with a keyword that reads a table without any row, header
\* included, is answered 404 and never 200; one that reads a table with a
\* header row and no matching data row is answered 200 with an empty result
\* list; otherwise there is one result per matching row; and no step of a
\* search changes a sheet.
C13_SearchEmptyIsNotFound ==
    [][\A r \in Slots :
          (h[r].op = "search" /\ h'[r] # h[r] /\ h[r].pc = "searchGet")
          => /\ sheetVars' = sheetVars /\ h'[r].writes = 0
             /\ h'[r].pc = "done"
             /\ (h'[r].error # "Failed to search inventory")
                => /\ (Len(inventory) = 0)
                        => (h'[r].status = 404 /\ h'[r].error = "No inventory data found")
                   /\ (Len(inventory) >= 1)
                        => /\ h'[r].status = 200
                           /\ Len(h'[r].results) =
                                 Cardinality(MatchingDataRows(inventory, h[r].body.keyword))]_vars

\* A search answered 200 with no result on a table that has its header row only.
C13_Witness ==
    /\ h[1].op = "search" /\ h[1].pc = "done" /\ h[1].status = 200
    /\ h[1].results = <<>> /\ h[1].body.keyword = "w1"
    /\ inventory = InvHeaderOnly

-----------------------------------------------------------------------------
(* C14                                                                     *)

\* Rows of band T-AA from row 2 on that are blank.
BlankNewItemRows(band) == { n \in 2..Len(band) : IsBlankRow(band[n]) }

\* The row the blank-row finder gives on band T-AA fetched from row 2.
FirstBlankNewItemRow(band) ==
    IF BlankNewItemRows(band) # {}
    THEN CHOOSE n \in BlankNewItemRows(band) : \A m \in BlankNewItemRows(band) : n <= m
    ELSE Max(Len(band), 1) + 1

\* C14: no step of an addNewItemWithoutCode request changes the Inventory
\* table or the bands A-J and K-S; the request ends with 201, 400 or 500;
\* the only change it makes is one row of band T-AA, the row the blank-row
\* finder gave, which was blank and now holds the record (its trailing empty
\* cells aside); it is made by the step answered 201.
C14_NewItemOnlyTtoAA ==
    [][\A r \in Slots :
          (h[r].op = "addNew" /\ h'[r] # h[r] /\ h[r].pc # "done")
          => /\ inventory' = inventory /\ formAJ' = formAJ /\ formKS' = formKS
             /\ (h'[r].pc = "done") => h'[r].status \in {201, 400, 500}
             /\ (formTAA' # formTAA)
                => /\ h'[r].pc = "done" /\ h'[r].status = 201
                   /\ ChangedRows(formTAA, formTAA') = {FirstBlankNewItemRow(formTAA)}
                   /\ IsBlankRow(BandRow(formTAA, FirstBlankNewItemRow(formTAA)))
                   /\ BandRow(formTAA', FirstBlankNewItemRow(formTAA))
                         = TrimRow(<<Timestamp, h[r].body.receiptQty, h[r].body.location,
                                     h[r].body.description, h[r].body.returnableItem,
                                     h[r].body.receivedBy, h[r].body.notes, h[r].imageLink>>)
             /\ (h'[r].pc = "done" /\ h'[r].status = 201) => formTAA' # formTAA]_vars

\* A new item answered 201, its record in the empty row 3 of T-AA between two
\* older records, the Inventory table and the other bands as they were found.
C14_Witness ==
    /\ h[1].op = "addNew" /\ h[1].pc = "done" /\ h[1].status = 201
    /\ formTAA = <<HeadersTAA, OldNewItem,
                   <<Timestamp, "2", "W1", "Washer", "No", "ann", "", WebViewLink>>,
                   OldNewItem>>
    /\ inventory = InvStandard
    /\ formAJ = FormNewItems.AJ /\ formKS = FormNewItems.KS

-----------------------------------------------------------------------------
(* C15                                                                     *)

\* The widest row of two versions of a sheet.
GridWidth(old, new) ==
    LET widths == {Len(old[n]) : n \in 1..Len(old)} \cup {Len(new[n]) : n \in 1..Len(new)}
    IN  IF widths = {} THEN 0 ELSE CHOOSE w \in widths : \A v \in widths : v <= w

\* The cells in which two versions of a sheet differ.
ChangedCells(old, new) ==
    { c \in (1..Max(Len(old), Len(new))) \X (1..GridWidth(old, new)) :
        GridCell(old, c[1], c[2]) # GridCell(new, c[1], c[2]) }

\* The quantity of the request.
RequestedQty(hr) ==
    NumberOf(IF hr.op = "issue" THEN hr.body.issuanceQty ELSE hr.body.receiptQty)

\* C15: the quantity write of an issue or receive request changes exactly one
\* cell of the Inventory table: the cell in the first row (data index + 2)
\* carrying the request's (itemCode, location) and in the column of the Qty
\* header; the value written is computed from the Qty of that first row, so a
\* later row with the same key is neither read nor modified; no other step of
\* the request changes the table.
C15_FirstMatchSingleCell ==
    [][\A r \in Slots :
          (h[r].op \in {"issue", "receive"} /\ h'[r] # h[r] /\ h[r].pc # "done")
          => IF h[r].pc = "updateQty" /\ Wrote(r)
             THEN LET body == h[r].body
                      n == LocatedRow(inventory, body.itemCode, body.location)
                      c == HeaderPos(inventory[1], "Qty")
                      cur == CurrentQty(inventory, body.itemCode, body.location)
                  IN  /\ ChangedCells(inventory, inventory') = {<<n, c>>}
                      /\ n = h[r].targetRowIndex + (IF h[r].op = "issue" THEN 0 ELSE 1)
                      /\ GridCell(inventory', n, c) =
                            NumToStr(IF h[r].op = "issue"
                                     THEN cur - RequestedQty(h[r])
                                     ELSE cur + RequestedQty(h[r]))
             ELSE inventory' = inventory]_vars

\* Two rows carry the key (X1, W1), with Qty 2 and 3: after a receipt of 1 the
\* first reads 3 and the second is as it was.
C15_Witness ==
    /\ h[1].op = "receive" /\ h[1].pc = "done" /\ h[1].status = 200
    /\ h[1].body.receiptQty = "1" /\ h[1].body.itemCode = "X1"
    /\ inventory = [InvStandard EXCEPT ![2][5] = "3"]
    /\ MatchingRows(inventory, "X1", "W1") = {2, 3}

-----------------------------------------------------------------------------
(* C16                                                                     *)

\* Every non-blank row of the band is the same row after the step.
RecordsKept(old, new) ==
    \A n \in 1..Len(old) : ~IsBlankRow(old[n]) => BandRow(new, n) = old[n]

\* The log bands the step changes.
BandsChanged ==
    {b \in {"AJ", "KS", "TAA"} :
        \/ b = "AJ" /\ formAJ' # formAJ
        \/ b = "KS" /\ formKS' # formKS
        \/ b = "TAA" /\ formTAA' # formTAA}

\* C16: with requests handled one at a time, no step overwrites, changes or
\* removes a non-blank row of a log band (A-J, K-S, T-AA), and a step that
\* writes to one band leaves the other two as they were.
C16_LogAppendOnly ==
    [][/\ RecordsKept(formAJ, formAJ')
       /\ RecordsKept(formKS, formKS')
       /\ RecordsKept(formTAA, formTAA')
       /\ Cardinality(BandsChanged) <= 1]_vars

\* An issue and then a new item, both logged: the older records of A-J and
\* T-AA are where they were, the new ones in the rows that were blank.
C16_Witness ==
    /\ started = 2
    /\ h[1].op = "addNew" /\ h[1].pc = "done" /\ h[1].status = 201
    /\ formAJ = <<HeadersAJ, OldIssue,
                  <<Timestamp, "X1", "1", "W1", "Bolt", "No", "ann", "repair", "",
                    "http://img/1">> >>
    /\ formTAA = <<HeadersTAA, OldNewItem,
                   <<Timestamp, "2", "W1", "Washer", "No", "ann">>,
                   OldNewItem>>
    /\ formKS = FormNewItems.KS

-----------------------------------------------------------------------------
(* C17                                                                     *)

\* The sum of the quantities of the records of a band logged for the key.
RECURSIVE LoggedQty(_, _, _)
LoggedQty(band, itemCode, location) ==
    IF band = <<>> THEN 0
    ELSE (IF /\ Len(Head(band)) >= 4
             /\ Head(band)[2] = itemCode /\ Head(band)[4] = location
             /\ IsNumberText(Head(band)[3])
          THEN NumberOf(Head(band)[3]) ELSE 0)
         + LoggedQty(Tail(band), itemCode, location)

\* The Qty of the row located for the key; 0 where none can be located.
RunningQty(itemCode, location) ==
    IF Locatable(inventory, itemCode, location)
    THEN CurrentQty(inventory, itemCode, location) ELSE 0

\* Running quantity plus what the log says was issued minus what it says was
\* received: the initial quantity as the books give it.
BookedInitialQty(itemCode, location) ==
    RunningQty(itemCode, location)
    + LoggedQty(formAJ, itemCode, location)
    - LoggedQty(formKS, itemCode, location)

\* What a request on the key that has logged its record and not yet written
\* its quantity still owes to the Qty cell.
Outstanding(itemCode, location) ==
    IF /\ h[1].op \in {"issue", "receive"} /\ h[1].pc = "updateQty"
       /\ h[1].body.itemCode = itemCode /\ h[1].body.location = location
    THEN IF h[1].op = "issue" THEN 0 - h[1].requestQty ELSE h[1].requestQty
    ELSE 0

Settled(itemCode, location) ==
    BookedInitialQty(itemCode, location) + Outstanding(itemCode, location)

\* C17: with requests handled one at a time and every remote write
\* succeeding, the Qty of a row plus the quantities of the issuance records
\* logged for it minus those of its receipt records is the same before and
\* after every step, a request between its two writes being counted with the
\* quantity it has logged and still owes to the Qty cell: whenever no request
\* is between its writes, Qty is the initial Qty minus the issuances logged
\* since plus the receipts logged since.  (A step that changes neither a
\* sheet nor what is owed leaves the sum as it is, trivially.)
C17_QtyMatchesLog ==
    [][\A itemCode \in {"X1", "X2"} :
          (\/ sheetVars' # sheetVars
           \/ Outstanding(itemCode, "W1")' # Outstanding(itemCode, "W1"))
          => Settled(itemCode, "W1")' = Settled(itemCode, "W1")]_vars

\* Stock 2, an issue of 1 and then a receipt of 2, both logged beside the
\* older records: Qty 3 = 2 - 1 + 2.
C17_Witness ==
    /\ started = 2
    /\ h[1].op = "receive" /\ h[1].pc = "done" /\ h[1].status = 200
    /\ inventory = [InvStandard EXCEPT ![2][5] = "3"]
    /\ LoggedQty(formAJ, "X1", "W1") = LoggedQty(FormGap.AJ, "X1", "W1") + 1
    /\ LoggedQty(formKS, "X1", "W1") = LoggedQty(FormGap.KS, "X1", "W1") + 2

-----------------------------------------------------------------------------
(* C18                                                                     *)

\* The data rows of the Inventory sheet whose Qty cell holds a number.
NumericQtyRows(inv) ==
    IF Len(inv) >= 2 /\ HasHeaders(inv[1])
    THEN { n \in 2..Len(inv) : IsNumberText(QtyText(inv, n)) }
    ELSE {}

\* C18: in every reachable state, requests interleaved in any way, each Qty
\* cell of the Inventory sheet that holds a number holds a non-negative one
\* (the rows start with non-negative quantities), and so does the newQty of
\* every request that has passed its checks and is about to write.
C18_QtyNeverNegative ==
    /\ \A n \in NumericQtyRows(inventory) : NumberOf(QtyText(inventory, n)) >= 0
    /\ \A r \in Slots :
          (h[r].op \in {"issue", "receive"}
             /\ h[r].pc \in {"findBlankRow", "getReceipts", "updateLog", "updateQty"})
          => h[r].newQty >= 0

\* Stock 2 and two issues of 2 that both read 2 and were both answered 200:
\* the Qty cell reads 0, not -2.
C18_Witness ==
    /\ IssueAccepted(1, "X1", "W1") /\ IssueAccepted(2, "X1", "W1")
    /\ h[1].currentQty = 2 /\ h[2].currentQty = 2
    /\ h[1].body.issuanceQty = "2" /\ h[2].body.issuanceQty = "2"
    /\ QtyText(inventory, 2) = "0"

-----------------------------------------------------------------------------
(* C19                                                                     *)

\* The rows of band A-J that hold the given transaction record.
RowsHolding(record) ==
    { n \in 1..Len(formAJ) : formAJ[n] = TrimRow(record) }

\* The two requests in the handlers are issues on the key, both answered 200,
\* whose blank-row scans returned the same row number.
SameBlankRow(a, b) ==
    /\ IssueAccepted(a, "X1", "W1") /\ IssueAccepted(b, "X1", "W1")
    /\ h[a].blankRow = h[b].blankRow

\* C19: when two issue requests that were both answered 200 obtained the same
\* row number from the blank-row scan of band A-J, that row holds the
\* transaction record of one of them; and when their records differ and they
\* are the only two requests made, the record of the other is in no row of the
\* log: one of the two records exists.  (That such a state is reached, both
\* scans running before either log write, is the witness.)
C19_SameRowOneRecord ==
    \A a \in Slots : \A b \in Slots \ {a} :
        SameBlankRow(a, b)
        => LET fa == h[a].formValues
               fb == h[b].formValues
               k  == h[a].blankRow
           IN  /\ k \in 1..Len(formAJ)
               /\ formAJ[k] \in {TrimRow(fa), TrimRow(fb)}
               /\ (fa # fb /\ started = 2)
                     => \/ RowsHolding(fa) = {k} /\ RowsHolding(fb) = {}
                        \/ RowsHolding(fb) = {k} /\ RowsHolding(fa) = {}

\* Headers-only log, an issue of 1 and an issue of 2 that both scanned row 2
\* and were both answered 200 after their two writes: row 2 holds the record
\* of the issue of 2 and the record of the issue of 1 is nowhere.
C19_Witness ==
    /\ IssueAccepted(1, "X1", "W1") /\ IssueAccepted(2, "X1", "W1")
    /\ h[1].blankRow = 2 /\ h[2].blankRow = 2
    /\ h[1].writes = 2 /\ h[2].writes = 2
    /\ h[1].body.issuanceQty = "1" /\ h[2].body.issuanceQty = "2"
    /\ Len(formAJ) = 2
    /\ formAJ[2] = TrimRow(h[2].formValues)
    /\ RowsHolding(h[1].formValues) = {}

=============================================================================
